---- MODULE Spec2Model ----
(***************************************************************************)
(* A model of deflate.py: the LZ77 matcher and its generator, the token    *)
(* serializer, the Huffman builder (on Python's heapq), the bit codec, the *)
(* file framing of compress_file / decompress_file and the replay engine.  *)
(*                                                                         *)
(* Python values are represented as follows.                               *)
(*   bytes / bytearray      a sequence of integers 0..255                  *)
(*   a bit string ('0101')  a sequence of integers 0..1                    *)
(*   a dict                 a sequence of <<key, value>> pairs with        *)
(*                          distinct keys, in insertion order; the two     *)
(*                          dicts of a Codec, which are only ever looked   *)
(*                          up by key, are functions from key to value     *)
(*   a Codeword             a record with the three attributes             *)
(* Python indexes from 0 and TLA+ from 1: At(s, i) is s[i] of the source.  *)
(***************************************************************************)
EXTENDS Integers, Sequences, FiniteSets, TLC

\* ------------------------------------------------------------------ bounds

\* Longest input buffer compress_file is run on.
MaxLen == 4

\* Longest short buffer the matcher is run on alone.
MatcherMaxLen == 6

\* The one long buffer the matcher is run on: LongLen bytes that repeat a block
\* of LongPeriod bytes 0, 1, ..., 255, 0, 1, ..., long enough for a
\* back-reference to run into the 258-byte cap.
LongLen == 600

LongPeriod == 300

\* Bytes the short input buffers are made of.
InBytes == {0, 65, 66}

\* Windows the matcher is constructed with when run alone.
Windows == {1, 2, 32768}

\* Symbols and the largest count of the frequency tables given to huffman.
HuffSymbols == {65, 66, 67, 68}

MaxCount == 5

\* Letters and codes registered with the Codec run alone, the largest
\* reverse-lookup table and the longest symbol list encoded.
CodecLetters == {65, 66}

CodecCodes == {<<>>, <<0>>, <<1>>, <<0, 0>>, <<0, 1>>, <<1, 0>>, <<1, 1>>}

MaxEntries == 3

MaxEncode == 2

\* Tokens given to the replay engine run alone, and how many of them.
ReplayOffsets == {0, 1, 2, 4}

ReplayLengths == {0, 1, 3, 4}

ReplayChars == {65, 66, 67}

MaxTokens == 3

\* ------------------------------------------------------- program constants

\* The cap on a match's length.
MaxMatch == 258

\* The window compress_file and decompress_file construct Lz77 with.
FileWindow == 32768

\* Number of counters in the header and bytes per counter.
NumSymbols == 256

CounterBytes == 4

\* Bytes per serialized Codeword ('>HHB').
RecordLen == 5

\* ------------------------------------------------------------------ state

VARIABLES
    pc,              \* where the running scenario stands
    data,            \* the input buffer (Lz77Compressor._buffer)
    window,          \* Lz77._sliding_window_length
    g_pc,            \* the Lz77.compress generator: "start", "yielded", "stopped"
    g_position,      \* the generator's local position
    codewords,       \* the Codewords the generator's consumer has collected
    q_position,      \* argument of the last direct codeword_for_position call
    q_codeword,      \* its result
    position,        \* compress_file's own position counter
    serialized,      \* compress_file: the packed records
    symbols,         \* input of Codec.encode
    freq,            \* compress_file: Counter(symbols) / huffman's argument
    codes,           \* the dict huffman returned
    letters,         \* Codec.letters
    codec_codes,     \* Codec.codes
    encoded_bits,    \* output of Codec.encode (padded, in compress_file)
    file,            \* the bytes compress_file wrote
    d_freq,          \* decompress_file: freq
    d_codes,         \* decompress_file: codes
    bitstream,       \* decompress_file: bitstream
    decoded_symbols, \* output of Codec.decode
    d_codewords,     \* decompress_file: codewords
    d_index,         \* how many of them have been replayed
    cw,              \* the Codeword last given to decompress_codeword
    buffer,          \* Lz77Decompressor.buffer
    raised,          \* whether an exception has propagated (IndexError)
    out              \* the bytes decompress_file wrote

matcherVars == <<data, window, g_pc, g_position, codewords, q_position, q_codeword>>

huffmanVars == <<freq, codes>>

codecVars == <<symbols, letters, codec_codes, encoded_bits, decoded_symbols>>

replayVars == <<cw, buffer, raised>>

fileVars == <<position, serialized, file, d_freq, d_codes, bitstream, d_codewords, d_index, out>>

vars == <<pc, matcherVars, huffmanVars, codecVars, replayVars, fileVars>>

\* ---------------------------------------------------------------- helpers

At(s, i) == s[i + 1]

Min(a, b) == IF a < b THEN a ELSE b

\* All sequences over S of length 0..n.
SeqsUpTo(S, n) == UNION {[1..k -> S] : k \in 0..n}

\* A loop of the source: Step applied for k = lo, lo + 1, ..., hi in turn, from
\* the state st, until Done holds of the state (a break or a raise). The range
\* is split in halves only to keep the evaluation shallow; the steps run in
\* the source's order.
RECURSIVE Iterate(_, _, _, _, _)
Iterate(Step(_, _), Done(_), st, lo, hi) ==
    IF lo > hi \/ Done(st) THEN st
    ELSE IF lo = hi THEN Step(st, lo)
    ELSE LET mid == (lo + hi) \div 2
         IN  Iterate(Step, Done, Iterate(Step, Done, st, lo, mid), mid + 1, hi)

\* Done for a loop without a break. It is FALSE of every state; comparing
\* the state has TLC evaluate it before the next step rather than after the
\* last one.
Never(st) == st # st

NoCodeword == [prefix_start_offset |-> -1, prefix_len |-> -1, character |-> -1]

Codeword(offset, len, char) ==
    [prefix_start_offset |-> offset, prefix_len |-> len, character |-> char]

\* ---------------------------------------------------------------- matcher

\* The comparison that decides whether a candidate replaces the best match.
IsLongerMatchTies(current_match_len, longest_match_len) ==
    current_match_len >= longest_match_len

IsLongerMatch(current_match_len, longest_match_len) ==
    current_match_len > longest_match_len

\* One test of the inner while loop's condition, and its body, on the state
\* [len: current_match_len, exit: the loop is left].
MatchStep(buf, pos, start, st) ==
    IF /\ pos + st.len < Len(buf)
       /\ start + st.len < pos
       /\ At(buf, start + st.len) = At(buf, pos + st.len)
    THEN [len |-> st.len + 1, exit |-> st.len + 1 >= MaxMatch]
    ELSE [len |-> st.len, exit |-> TRUE]

LoopExit(st) == st.exit

\* The inner while loop: current_match_len when it is left. The condition
\* holds at most len(buffer) - position times.
MatchLoop(buf, pos, start) ==
    Iterate(LAMBDA st, k : MatchStep(buf, pos, start, st), LoopExit,
            [len |-> 0, exit |-> FALSE], 0, Len(buf) - pos).len

\* The body of the for loop over offsets, on the state
\* [len: longest_match_len, offset: longest_match_offset, exit].
OffsetStep(buf, pos, st, offset) ==
    IF pos - offset < 0
    THEN [st EXCEPT !.exit = TRUE]
    ELSE LET current_match_len == MatchLoop(buf, pos, pos - offset)
         IN  IF IsLongerMatch(current_match_len, st.len)
             THEN [len |-> current_match_len, offset |-> offset, exit |-> FALSE]
             ELSE st

\* for offset in range(1, max_offset + 1)
OffsetLoop(buf, pos, max_offset) ==
    Iterate(LAMBDA st, offset : OffsetStep(buf, pos, st, offset), LoopExit,
            [len |-> 0, offset |-> 0, exit |-> FALSE], 1, max_offset)

codeword_for_position(buf, sliding_window_length, pos) ==
    LET max_offset == Min(pos, sliding_window_length)
        best == OffsetLoop(buf, pos, max_offset)
        longest_match_len == best.len
        longest_match_offset == best.offset
        next_char_pos == pos + longest_match_len
    IN  IF longest_match_len > 0
        THEN IF next_char_pos >= Len(buf)
             THEN Codeword(0, 0, At(buf, pos))
             ELSE Codeword(longest_match_offset, longest_match_len, At(buf, next_char_pos))
        ELSE Codeword(0, 0, At(buf, pos))

\* A resume that advances by the match alone, without the literal.
GenResumeWithoutLiteral ==
    IF g_pc = "start" THEN 0
    ELSE g_position + codewords[Len(codewords)].prefix_len

\* The position the generator resumes at: a fresh generator starts at 0, a
\* suspended one first runs the statement after its yield.
GenResumePosition ==
    IF g_pc = "start" THEN 0
    ELSE g_position + codewords[Len(codewords)].prefix_len + 1

\* next(generator): run Lz77.compress to its next yield, or to its end.
GenNext ==
    /\ g_pc \in {"start", "yielded"}
    /\ LET p == GenResumePosition
       IN  /\ g_position' = p
           /\ IF p < Len(data)
              THEN /\ g_pc' = "yielded"
                   /\ codewords' = Append(codewords, codeword_for_position(data, window, p))
              ELSE /\ g_pc' = "stopped"
                   /\ codewords' = codewords

\* ------------------------------------------------------------------ dicts

DictKeys(d) == {d[i][1] : i \in 1..Len(d)}

DictHas(d, k) == \E i \in 1..Len(d) : d[i][1] = k

DictGet(d, k, default) ==
    IF DictHas(d, k) THEN d[CHOOSE i \in 1..Len(d) : d[i][1] = k][2] ELSE default

\* d[k] = v: an existing key keeps its place, a new one goes last.
DictSet(d, k, v) ==
    IF DictHas(d, k)
    THEN [i \in 1..Len(d) |-> IF d[i][1] = k THEN <<k, v>> ELSE d[i]]
    ELSE Append(d, <<k, v>>)

\* The mapping a dict stands for, without its insertion order.
DictMap(d) == [k \in DictKeys(d) |-> DictGet(d, k, <<>>)]

\* ------------------------------------------------------------- serializer

\* struct.pack('>HHB', offset, length, character)
PackCodeword(c) ==
    << c.prefix_start_offset \div 256, c.prefix_start_offset % 256,
       c.prefix_len \div 256, c.prefix_len % 256,
       c.character >>

\* struct.unpack('>HHB', chunk)
UnpackCodeword(chunk) ==
    Codeword(chunk[1] * 256 + chunk[2], chunk[3] * 256 + chunk[4], chunk[5])

\* serialized += pack(cw) for cw in codewords
SerializeAll(cws) ==
    Iterate(LAMBDA acc, i : acc \o PackCodeword(cws[i]), Never, <<>>, 1, Len(cws))

\* The loop over range(0, len(serialized), 5): whole chunks only; the break
\* on a short chunk can only be taken at the last one.
DeserializeAll(bytes) ==
    [i \in 1..(Len(bytes) \div RecordLen) |->
        UnpackCodeword(SubSeq(bytes, (i - 1) * RecordLen + 1, i * RecordLen))]

\* Counter(symbols): counts in first-occurrence order.
Counter(syms) ==
    Iterate(LAMBDA acc, i : DictSet(acc, syms[i], DictGet(acc, syms[i], 0) + 1), Never,
            <<>>, 1, Len(syms))

\* ------------------------------------------------------------------ heapq

\* Python's lexicographic list comparison a < b.
RECURSIVE ListLess(_, _)
ListLess(a, b) ==
    IF b = <<>> THEN FALSE
    ELSE IF a = <<>> THEN TRUE
    ELSE IF Head(a) # Head(b) THEN Head(a) < Head(b)
    ELSE ListLess(Tail(a), Tail(b))

\* A comparison that looks at the frequency alone.
HeapLessFreqOnly(x, y) == x[1] < y[1]

\* Tuple comparison (freq, symbols) < (freq, symbols).
HeapLess(x, y) ==
    IF x[1] # y[1] THEN x[1] < y[1] ELSE ListLess(x[2], y[2])

\* heapq._siftdown(heap, startpos, pos) with newitem held aside; indices from 0.
RECURSIVE SiftDown(_, _, _, _)
SiftDown(heap, startpos, pos, newitem) ==
    IF pos > startpos
    THEN LET parentpos == (pos - 1) \div 2
             parent == At(heap, parentpos)
         IN  IF HeapLess(newitem, parent)
             THEN SiftDown([heap EXCEPT ![pos + 1] = parent], startpos, parentpos, newitem)
             ELSE [heap EXCEPT ![pos + 1] = newitem]
    ELSE [heap EXCEPT ![pos + 1] = newitem]

\* heapq._siftup(heap, pos): bubble the smaller child up to a leaf, then sift
\* newitem down from there.
RECURSIVE SiftUp(_, _, _, _)
SiftUp(heap, startpos, pos, newitem) ==
    LET endpos == Len(heap)
        childpos == 2 * pos + 1
        rightpos == childpos + 1
        pick == IF rightpos < endpos /\ ~HeapLess(At(heap, childpos), At(heap, rightpos))
                THEN rightpos ELSE childpos
    IN  IF childpos < endpos
        THEN SiftUp([heap EXCEPT ![pos + 1] = At(heap, pick)], startpos, pick, newitem)
        ELSE SiftDown([heap EXCEPT ![pos + 1] = newitem], startpos, pos, newitem)

heappush(heap, item) ==
    SiftDown(Append(heap, item), 0, Len(heap), item)

\* heappop(heap): <<the smallest item, the heap left>>.
heappop(heap) ==
    LET lastelt == heap[Len(heap)]
        rest == SubSeq(heap, 1, Len(heap) - 1)
    IN  IF rest # <<>>
        THEN <<rest[1], SiftUp([rest EXCEPT ![1] = lastelt], 0, 0, lastelt)>>
        ELSE <<lastelt, rest>>

\* ---------------------------------------------------------------- huffman

\* for symbol, freq in frequencies.items(): heappush(heap, (freq, [symbol]))
RECURSIVE PushAll(_, _)
PushAll(frequencies, heap) ==
    IF frequencies = <<>> THEN heap
    ELSE PushAll(Tail(frequencies),
                 heappush(heap, <<Head(frequencies)[2], <<Head(frequencies)[1]>> >>))

\* A variant that puts the bit after the code: codes[s] = codes[s] + bit.
RECURSIVE AppendBit(_, _, _)
AppendBit(cds, syms, bit) ==
    IF syms = <<>> THEN cds
    ELSE AppendBit(DictSet(cds, Head(syms), DictGet(cds, Head(syms), <<>>) \o <<bit>>),
                   Tail(syms), bit)

\* for s in syms: codes[s] = bit + codes[s]   (codes is a defaultdict(str))
RECURSIVE PrependBit(_, _, _)
PrependBit(cds, syms, bit) ==
    IF syms = <<>> THEN cds
    ELSE PrependBit(DictSet(cds, Head(syms), <<bit>> \o DictGet(cds, Head(syms), <<>>)),
                    Tail(syms), bit)

\* while len(heap) > 1: pop two groups, extend their codes, push the merged group.
RECURSIVE MergeLoop(_, _)
MergeLoop(heap, cds) ==
    IF Len(heap) > 1
    THEN LET p1 == heappop(heap)
             p2 == heappop(p1[2])
             freq1 == p1[1][1]
             sym1 == p1[1][2]
             freq2 == p2[1][1]
             sym2 == p2[1][2]
             cds1 == PrependBit(cds, sym1, 0)
             cds2 == PrependBit(cds1, sym2, 1)
         IN  MergeLoop(heappush(p2[2], <<freq1 + freq2, sym1 \o sym2>>), cds2)
    ELSE cds

huffman(frequencies) ==
    LET merged == MergeLoop(PushAll(frequencies, <<>>), <<>>)
    IN  IF Len(frequencies) = 1
        THEN DictSet(merged, frequencies[1][1], <<0>>)
        ELSE merged

\* ------------------------------------------------------------------ codec

\* m[k] = v on a dict kept as a function.
MapSet(m, k, v) == [x \in (DOMAIN m) \cup {k} |-> IF x = k THEN v ELSE m[x]]

\* Codec.update on the pair <<letters, codes>>.
CodecUpdate(codec, letter, code) ==
    <<MapSet(codec[1], code, letter), MapSet(codec[2], letter, code)>>

\* for sym, code in codes.items(): codec.update(sym, code)
RECURSIVE CodecUpdateAll(_, _)
CodecUpdateAll(codec, cds) ==
    IF cds = <<>> THEN codec
    ELSE CodecUpdateAll(CodecUpdate(codec, Head(cds)[1], Head(cds)[2]), Tail(cds))

\* Codec.encode: ''.join(self.codes[s] for s in symbols); every symbol must
\* be a key of self.codes (a KeyError otherwise).
RECURSIVE CodecEncode(_, _)
CodecEncode(cds, syms) ==
    IF syms = <<>> THEN <<>>
    ELSE cds[Head(syms)] \o CodecEncode(cds, Tail(syms))

\* A decode step that keeps the matched code in the accumulator.
DecodeStepNoReset(ltrs, st, bit) ==
    LET code == Append(st.current_code, bit)
    IN  IF code \in DOMAIN ltrs
        THEN [current_code |-> code, decoded |-> Append(st.decoded, ltrs[code])]
        ELSE [current_code |-> code, decoded |-> st.decoded]

\* One turn of Codec.decode's loop on the state
\* [current_code, decoded].
DecodeStep(ltrs, st, bit) ==
    LET code == Append(st.current_code, bit)
    IN  IF code \in DOMAIN ltrs
        THEN [current_code |-> <<>>, decoded |-> Append(st.decoded, ltrs[code])]
        ELSE [current_code |-> code, decoded |-> st.decoded]

\* Codec.decode
CodecDecode(ltrs, bits) ==
    Iterate(LAMBDA st, i : DecodeStep(ltrs, st, bits[i]), Never,
            [current_code |-> <<>>, decoded |-> <<>>], 1, Len(bits)).decoded

\* ---------------------------------------------------------------- framing

\* Python's s[a:b] for 0 <= a <= b.
Slice(s, a, b) == SubSeq(s, a + 1, Min(b, Len(s)))

\* count.to_bytes(4, 'little'): the least significant byte first.
ToBytesLittle(count) ==
    << count % 256, (count \div 256) % 256,
       (count \div 65536) % 256, (count \div 16777216) % 256 >>

\* count.to_bytes(4, 'big'). A count of 2^32 or more raises OverflowError; it
\* takes a record stream of 4 GiB to get one.
ToBytes(count) ==
    << (count \div 16777216) % 256, (count \div 65536) % 256,
       (count \div 256) % 256, count % 256 >>

\* int.from_bytes(bytes, 'big')
RECURSIVE FromBytesAcc(_, _)
FromBytesAcc(bytes, acc) ==
    IF bytes = <<>> THEN acc
    ELSE FromBytesAcc(Tail(bytes), acc * 256 + Head(bytes))

FromBytes(bytes) == FromBytesAcc(bytes, 0)

\* The header loop of compress_file: for b in range(256), 4 bytes each.
HeaderOf(frequencies) ==
    [i \in 1..(NumSymbols * CounterBytes) |->
        ToBytes(DictGet(frequencies, (i - 1) \div CounterBytes, 0))[((i - 1) % CounterBytes) + 1]]

\* padding = (8 - len % 8) % 8; encoded_bits += '0' * padding
PadBits(bits) ==
    bits \o [i \in 1..((8 - (Len(bits) % 8)) % 8) |-> 0]

\* int(byte, 2) for a string of up to 8 bits.
RECURSIVE BitsToInt(_, _)
BitsToInt(bits, acc) ==
    IF bits = <<>> THEN acc ELSE BitsToInt(Tail(bits), 2 * acc + Head(bits))

\* bytes_out: one byte per 8 bits.
PackBits(bits) ==
    [i \in 1..((Len(bits) + 7) \div 8) |-> BitsToInt(Slice(bits, (i - 1) * 8, i * 8), 0)]

\* f"{byte:08b}"
ByteToBits(byte) ==
    [i \in 1..8 |-> (byte \div (2 ^ (8 - i))) % 2]

\* ''.join(f"{byte:08b}" for byte in encoded_data)
UnpackBits(bytes) ==
    [i \in 1..(8 * Len(bytes)) |-> ByteToBits(bytes[((i - 1) \div 8) + 1])[((i - 1) % 8) + 1]]

\* One turn of decompress_file's loop over b in range(256).
ReadFreqStep(freq_data, acc, b) ==
    LET count == FromBytes(Slice(freq_data, b * CounterBytes, (b + 1) * CounterBytes))
    IN  IF count > 0 THEN Append(acc, <<b, count>>) ELSE acc

\* The dict of the positive counters, in ascending byte order.
ReadFreq(freq_data) ==
    Iterate(LAMBDA acc, b : ReadFreqStep(freq_data, acc, b), Never, <<>>, 0, NumSymbols - 1)

\* ----------------------------------------------------------------- replay

\* bytearray indexing buf[idx]: a negative index counts from the end, and an
\* index outside -len..len-1 raises IndexError.
IndexOk(buf, idx) == -Len(buf) <= idx /\ idx < Len(buf)

Index(buf, idx) == IF idx >= 0 THEN At(buf, idx) ELSE At(buf, Len(buf) + idx)

\* A copy step that reads the buffer as it was when the Codeword arrived (a
\* block copy), not the growing one; old_len is its length then.
CopyStepBlock(start, st, i) ==
    LET old_len == Len(st.buffer) - i
    IN  IF start + i >= old_len
        THEN [st EXCEPT !.exit = TRUE]
        ELSE IF IndexOk(st.buffer, start + i)
             THEN [st EXCEPT !.buffer = Append(st.buffer, Index(st.buffer, start + i))]
             ELSE [st EXCEPT !.raised = TRUE, !.exit = TRUE]

\* One turn of the copy loop on the state [buffer, raised, exit].
CopyStep(start, st, i) ==
    IF start + i >= Len(st.buffer)
    THEN [st EXCEPT !.exit = TRUE]
    ELSE IF IndexOk(st.buffer, start + i)
         THEN [st EXCEPT !.buffer = Append(st.buffer, Index(st.buffer, start + i))]
         ELSE [st EXCEPT !.raised = TRUE, !.exit = TRUE]

\* for i in range(length): ... self.buffer.append(self.buffer[start + i])
CopyLoop(buf, start, length) ==
    Iterate(LAMBDA st, i : CopyStep(start, st, i), LoopExit,
            [buffer |-> buf, raised |-> FALSE, exit |-> FALSE], 0, length - 1)

\* Lz77Decompressor.decompress_codeword: the buffer left, and whether the
\* call raised.
decompress_codeword(buf, c) ==
    LET copied == IF c.prefix_start_offset > 0
                  THEN CopyLoop(buf, Len(buf) - c.prefix_start_offset, c.prefix_len)
                  ELSE [buffer |-> buf, raised |-> FALSE, exit |-> FALSE]
    IN  IF copied.raised THEN [buffer |-> copied.buffer, raised |-> TRUE]
        ELSE [buffer |-> Append(copied.buffer, c.character), raised |-> FALSE]

\* ------------------------------------------------------- idle components

MatcherIdle ==
    /\ data = <<>>
    /\ window = FileWindow
    /\ g_pc = "start"
    /\ g_position = 0
    /\ codewords = <<>>
    /\ q_position = -1
    /\ q_codeword = NoCodeword

HuffmanIdle ==
    /\ freq = <<>>
    /\ codes = <<>>

CodecIdle ==
    /\ symbols = <<>>
    /\ letters = <<>>
    /\ codec_codes = <<>>
    /\ encoded_bits = <<>>
    /\ decoded_symbols = <<>>

ReplayIdle ==
    /\ cw = NoCodeword
    /\ buffer = <<>>
    /\ raised = FALSE

FileIdle ==
    /\ position = 0
    /\ serialized = <<>>
    /\ file = <<>>
    /\ d_freq = <<>>
    /\ d_codes = <<>>
    /\ bitstream = <<>>
    /\ d_codewords = <<>>
    /\ d_index = 0
    /\ out = <<>>

\* ------------------------------------------- compress_file / decompress_file

\* One turn of compress_file's while loop: next(codeword_generator), append,
\* advance compress_file's own position.
CompressNext ==
    /\ pc = "c_lz"
    /\ position < Len(data)
    /\ GenNext
    /\ position' = position + codewords'[Len(codewords')].prefix_len + 1
    /\ UNCHANGED <<pc, data, window, q_position, q_codeword>>
    /\ UNCHANGED <<huffmanVars, codecVars, replayVars>>
    /\ UNCHANGED <<serialized, file, d_freq, d_codes, bitstream, d_codewords, d_index, out>>

\* serialized, symbols, freq.
Serialize ==
    /\ pc = "c_lz"
    /\ position >= Len(data)
    /\ serialized' = SerializeAll(codewords)
    /\ symbols' = serialized'
    /\ freq' = Counter(symbols')
    /\ pc' = "c_huffman"
    /\ UNCHANGED <<matcherVars, replayVars, codes, letters, codec_codes>>
    /\ UNCHANGED <<encoded_bits, decoded_symbols>>
    /\ UNCHANGED <<position, file, d_freq, d_codes, bitstream, d_codewords, d_index, out>>

\* codes = huffman(freq) if freq else {}; a fresh Codec is updated with them.
BuildCodes ==
    /\ pc = "c_huffman"
    /\ codes' = IF freq # <<>> THEN huffman(freq) ELSE <<>>
    /\ LET codec == CodecUpdateAll(<<<<>>, <<>>>>, codes')
       IN  /\ letters' = codec[1]
           /\ codec_codes' = codec[2]
    /\ pc' = "c_encode"
    /\ UNCHANGED <<matcherVars, replayVars, fileVars, freq>>
    /\ UNCHANGED <<symbols, encoded_bits, decoded_symbols>>

\* encoded_bits = codec.encode(symbols) if codes else '', then the padding.
Encode ==
    /\ pc = "c_encode"
    /\ encoded_bits' = PadBits(IF codes # <<>> THEN CodecEncode(codec_codes, symbols) ELSE <<>>)
    /\ pc' = "c_write"
    /\ UNCHANGED <<matcherVars, huffmanVars, replayVars, fileVars>>
    /\ UNCHANGED <<symbols, letters, codec_codes, decoded_symbols>>

\* bytes_out and the output file: the 256 counters, then the payload.
WriteFile ==
    /\ pc = "c_write"
    /\ file' = HeaderOf(freq) \o PackBits(encoded_bits)
    /\ pc' = "d_read"
    /\ UNCHANGED <<matcherVars, huffmanVars, codecVars, replayVars>>
    /\ UNCHANGED <<position, serialized, d_freq, d_codes, bitstream, d_codewords, d_index, out>>

\* decompress_file reads the file: freq from the first 1024 bytes.
ReadFile ==
    /\ pc = "d_read"
    /\ d_freq' = ReadFreq(Slice(file, 0, NumSymbols * CounterBytes))
    /\ pc' = "d_huffman"
    /\ UNCHANGED <<matcherVars, huffmanVars, codecVars, replayVars>>
    /\ UNCHANGED <<position, serialized, file, d_codes, bitstream, d_codewords, d_index, out>>

\* codes = huffman(freq) if freq else {}; decompress_file's own Codec.
RebuildCodes ==
    /\ pc = "d_huffman"
    /\ d_codes' = IF d_freq # <<>> THEN huffman(d_freq) ELSE <<>>
    /\ LET codec == CodecUpdateAll(<<<<>>, <<>>>>, d_codes')
       IN  /\ letters' = codec[1]
           /\ codec_codes' = codec[2]
    /\ pc' = "d_decode"
    /\ UNCHANGED <<matcherVars, huffmanVars, replayVars>>
    /\ UNCHANGED <<symbols, encoded_bits, decoded_symbols>>
    /\ UNCHANGED <<position, serialized, file, d_freq, bitstream, d_codewords, d_index, out>>

\* bitstream, decoded_symbols.
Decode ==
    /\ pc = "d_decode"
    /\ bitstream' = UnpackBits(Slice(file, NumSymbols * CounterBytes, Len(file)))
    /\ decoded_symbols' = IF d_codes # <<>> THEN CodecDecode(letters, bitstream') ELSE <<>>
    /\ pc' = "d_deserialize"
    /\ UNCHANGED <<matcherVars, huffmanVars, replayVars>>
    /\ UNCHANGED <<symbols, letters, codec_codes, encoded_bits>>
    /\ UNCHANGED <<position, serialized, file, d_freq, d_codes, d_codewords, d_index, out>>

\* serialized = b''.join(decoded_symbols); the records of 5 bytes; a fresh
\* Lz77Decompressor.
Deserialize ==
    /\ pc = "d_deserialize"
    /\ d_codewords' = DeserializeAll(decoded_symbols)
    /\ d_index' = 0
    /\ buffer' = <<>>
    /\ pc' = "d_replay"
    /\ UNCHANGED <<matcherVars, huffmanVars, codecVars, cw, raised>>
    /\ UNCHANGED <<position, serialized, file, d_freq, d_codes, bitstream, out>>

\* One turn of the replay loop; an exception leaves decompress_file before
\* it writes any output.
ReplayNext ==
    /\ pc = "d_replay"
    /\ d_index < Len(d_codewords)
    /\ LET r == decompress_codeword(buffer, d_codewords[d_index + 1])
       IN  /\ cw' = d_codewords[d_index + 1]
           /\ buffer' = r.buffer
           /\ raised' = r.raised
           /\ pc' = IF r.raised THEN "failed" ELSE "d_replay"
    /\ d_index' = d_index + 1
    /\ UNCHANGED <<matcherVars, huffmanVars, codecVars>>
    /\ UNCHANGED <<position, serialized, file, d_freq, d_codes, bitstream, d_codewords, out>>

\* f_out.write(decompressor.get_data())
WriteOutput ==
    /\ pc = "d_replay"
    /\ d_index >= Len(d_codewords)
    /\ out' = buffer
    /\ pc' = "done"
    /\ UNCHANGED <<matcherVars, huffmanVars, codecVars, replayVars>>
    /\ UNCHANGED <<position, serialized, file, d_freq, d_codes, bitstream, d_codewords, d_index>>

\* compress_file(b) followed by decompress_file on what it wrote, for every
\* short buffer b.
Init ==
    /\ pc = "c_lz"
    /\ data \in SeqsUpTo(InBytes, MaxLen)
    /\ window = FileWindow
    /\ g_pc = "start"
    /\ g_position = 0
    /\ codewords = <<>>
    /\ q_position = -1
    /\ q_codeword = NoCodeword
    /\ HuffmanIdle
    /\ CodecIdle
    /\ ReplayIdle
    /\ FileIdle

Next ==
    \/ CompressNext
    \/ Serialize
    \/ BuildCodes
    \/ Encode
    \/ WriteFile
    \/ ReadFile
    \/ RebuildCodes
    \/ Decode
    \/ Deserialize
    \/ ReplayNext
    \/ WriteOutput

Spec == Init /\ [][Next]_vars

\* ------------------------------------------------------ the matcher alone

LongBuffer == [i \in 1..LongLen |-> ((i - 1) % LongPeriod) % 256]

MatcherInit ==
    /\ pc = "matcher"
    /\ data \in SeqsUpTo(InBytes, MatcherMaxLen) \cup {LongBuffer}
    /\ window \in Windows
    /\ g_pc = "start"
    /\ g_position = 0
    /\ codewords = <<>>
    /\ q_position = -1
    /\ q_codeword = NoCodeword
    /\ HuffmanIdle
    /\ CodecIdle
    /\ ReplayIdle
    /\ FileIdle

\* A consumer that runs Lz77(window).compress(data) to exhaustion, keeping
\* the Codewords.
MatcherGenNext ==
    /\ pc = "matcher"
    /\ q_position = -1
    /\ GenNext
    /\ UNCHANGED <<pc, data, window, q_position, q_codeword>>
    /\ UNCHANGED <<huffmanVars, codecVars, replayVars, fileVars>>

\* Lz77Compressor(window, data).codeword_for_position(p), called directly,
\* once, at any position of the buffer.
MatcherQuery ==
    /\ pc = "matcher"
    /\ g_pc = "start"
    /\ q_position = -1
    /\ \E p \in 0..(Len(data) - 1) :
        /\ q_position' = p
        /\ q_codeword' = codeword_for_position(data, window, p)
    /\ UNCHANGED <<pc, data, window, g_pc, g_position, codewords>>
    /\ UNCHANGED <<huffmanVars, codecVars, replayVars, fileVars>>

MatcherNext ==
    \/ MatcherGenNext
    \/ MatcherQuery

SpecMatcher == MatcherInit /\ [][MatcherNext]_vars

\* ------------------------------------------------------- huffman alone

\* Dicts with distinct keys from S and values from V.
DictsOver(S, V) ==
    {t \in SeqsUpTo(S \X V, Cardinality(S)) :
        \A i, j \in 1..Len(t) : i # j => t[i][1] # t[j][1]}

HuffmanInit ==
    /\ pc = "huffman"
    /\ freq \in DictsOver(HuffSymbols, 1..MaxCount)
    /\ codes = <<>>
    /\ MatcherIdle
    /\ CodecIdle
    /\ ReplayIdle
    /\ FileIdle

\* codes = huffman(freq)
HuffmanCall ==
    /\ pc = "huffman"
    /\ codes' = huffman(freq)
    /\ pc' = "huffman_done"
    /\ UNCHANGED <<freq, matcherVars, codecVars, replayVars, fileVars>>

HuffmanNext == HuffmanCall

SpecHuffman == HuffmanInit /\ [][HuffmanNext]_vars

\* ------------------------------------------------------- the Codec alone

CodecInit ==
    /\ pc = "codec"
    /\ CodecIdle
    /\ MatcherIdle
    /\ HuffmanIdle
    /\ ReplayIdle
    /\ FileIdle

\* codec.update(letter, code)
UnitUpdate ==
    /\ pc = "codec"
    /\ \E letter \in CodecLetters, code \in CodecCodes :
        LET codec == CodecUpdate(<<letters, codec_codes>>, letter, code)
        IN  /\ Cardinality(DOMAIN codec[1]) <= MaxEntries
            /\ letters' = codec[1]
            /\ codec_codes' = codec[2]
    /\ UNCHANGED <<pc, symbols, encoded_bits, decoded_symbols>>
    /\ UNCHANGED <<matcherVars, huffmanVars, replayVars, fileVars>>

\* encoded = codec.encode(s) for a list s of registered symbols
UnitEncode ==
    /\ pc = "codec"
    /\ \E s \in SeqsUpTo(DOMAIN codec_codes, MaxEncode) :
        /\ symbols' = s
        /\ encoded_bits' = CodecEncode(codec_codes, s)
    /\ pc' = "codec_encoded"
    /\ UNCHANGED <<letters, codec_codes, decoded_symbols>>
    /\ UNCHANGED <<matcherVars, huffmanVars, replayVars, fileVars>>

\* decoded = codec.decode(encoded)
UnitDecode ==
    /\ pc = "codec_encoded"
    /\ decoded_symbols' = CodecDecode(letters, encoded_bits)
    /\ pc' = "codec_decoded"
    /\ UNCHANGED <<symbols, letters, codec_codes, encoded_bits>>
    /\ UNCHANGED <<matcherVars, huffmanVars, replayVars, fileVars>>

CodecNext ==
    \/ UnitUpdate
    \/ UnitEncode
    \/ UnitDecode

SpecCodec == CodecInit /\ [][CodecNext]_vars

\* ------------------------------------------------ the replay engine alone

ReplayTokens ==
    {Codeword(o, l, c) : o \in ReplayOffsets, l \in ReplayLengths, c \in ReplayChars}

ReplayInit ==
    /\ pc = "replay"
    /\ ReplayIdle
    /\ MatcherIdle
    /\ HuffmanIdle
    /\ CodecIdle
    /\ FileIdle

\* decompressor.decompress_codeword(c) on a Lz77Decompressor of the caller's;
\* d_index counts the calls.
UnitReplay ==
    /\ pc = "replay"
    /\ ~raised
    /\ d_index < MaxTokens
    /\ \E c \in ReplayTokens :
        LET r == decompress_codeword(buffer, c)
        IN  /\ cw' = c
            /\ buffer' = r.buffer
            /\ raised' = r.raised
    /\ d_index' = d_index + 1
    /\ UNCHANGED <<pc, matcherVars, huffmanVars, codecVars>>
    /\ UNCHANGED <<position, serialized, file, d_freq, d_codes, bitstream, d_codewords, out>>

ReplayNextUnit == UnitReplay

SpecReplay == ReplayInit /\ [][ReplayNextUnit]_vars

\* ================================================================== claims

IsPrefix(a, b) == Len(a) <= Len(b) /\ SubSeq(b, 1, Len(a)) = a

\* The running sums of prefix_len + 1 over cws: element i + 1 is the sum over
\* the first i Codewords.
Covered(cws) ==
    Iterate(LAMBDA acc, i : Append(acc, acc[i] + cws[i].prefix_len + 1), Never,
            <<0>>, 1, Len(cws))

Finished == pc \in {"done", "failed"}

\* ---------------------------------------------------------------------- C1
\* C1: round trip. Whenever decompress_file has run on the output of
\* compress_file(b), it has ended normally and written exactly b.
C1_RoundTrip ==
    Finished => (pc = "done" /\ out = data)

\* ---------------------------------------------------------------------- C2
\* The dict of frequencies with its entries in the order p.
Reordered(frequencies, p) == [i \in 1..Len(frequencies) |-> frequencies[p[i]]]

HeaderRead == pc \in {"d_decode", "d_deserialize", "d_replay", "done", "failed"}

\* C2: the table decompress_file rebuilds from the header (entries pushed in
\* ascending byte order) maps every symbol to the same bits as the table
\* compress_file encoded with (entries pushed in first-occurrence order), and
\* so does the table huffman builds from the same frequencies pushed in any
\* other order.
C2_SameTable ==
    /\ HeaderRead => DictMap(d_codes) = DictMap(codes)
    /\ pc = "d_decode" =>
        \A p \in Permutations(1..Len(freq)) :
            freq # <<>> => DictMap(huffman(Reordered(freq, p))) = DictMap(codes)

\* A run in which the two sides push the entries in different orders and two
\* symbols have the same frequency.
C2_Witness ==
    /\ pc = "d_decode"
    /\ freq # d_freq
    /\ \E i, j \in 1..Len(freq) : i # j /\ freq[i][2] = freq[j][2]

\* ---------------------------------------------------------------------- C3
\* C3: for a non-empty table of positive counts, huffman gives every symbol
\* of the table, and nothing else, a non-empty code; no symbol's code is a
\* prefix of another's; a table of one symbol gives that symbol the code "0".
C3_PrefixFree ==
    (pc = "huffman_done" /\ freq # <<>>) =>
        /\ DictKeys(codes) = DictKeys(freq)
        /\ \A a \in DictKeys(freq) : DictGet(codes, a, <<>>) # <<>>
        /\ \A a, b \in DictKeys(freq) :
            a # b => ~IsPrefix(DictGet(codes, a, <<>>), DictGet(codes, b, <<>>))
        /\ Len(freq) = 1 => codes = <<<<freq[1][1], <<0>>>>>>

\* A table of four symbols, two of them with the same count.
C3_Witness ==
    /\ pc = "huffman_done"
    /\ Len(freq) = 4
    /\ freq[1][2] = freq[2][2]
    /\ freq[3][2] > freq[4][2]

\* ---------------------------------------------------------------------- C4
\* C4: the generator's cursor starts at 0 and never exceeds len(data); the
\* i-th token is produced at the sum of length + 1 over the tokens before it,
\* and its literal is data[that position + its length]; a suspended generator
\* stands at its last token's position; a stopped one stands at len(data),
\* which is the sum of length + 1 over all tokens.
C4_Cover ==
    LET start == Covered(codewords)
        n == Len(codewords)
    IN  /\ g_pc = "start" => (g_position = 0 /\ codewords = <<>>)
        /\ g_position <= Len(data)
        /\ \A i \in 1..n :
            /\ start[i] + codewords[i].prefix_len < Len(data)
            /\ codewords[i].character = At(data, start[i] + codewords[i].prefix_len)
        /\ g_pc = "yielded" => g_position = start[n]
        /\ g_pc = "stopped" => (g_position = Len(data) /\ start[n + 1] = Len(data))

\* The generator has stopped after a literal token and a back-reference.
C4_Witness ==
    /\ g_pc = "stopped"
    /\ Len(codewords) >= 3
    /\ \E i \in 1..Len(codewords) : codewords[i].prefix_len > 1

\* ---------------------------------------------------------------------- C5
\* The replay the specification describes: the copy stops early at an index
\* outside 0..len(output)-1, then the literal is appended.
RECURSIVE TruncatingCopy(_, _, _, _)
TruncatingCopy(output, start, i, length) ==
    IF i >= length \/ start + i < 0 \/ start + i >= Len(output)
    THEN output
    ELSE TruncatingCopy(Append(output, At(output, start + i)), start, i + 1, length)

TruncatingReplay(output, c) ==
    Append(TruncatingCopy(output, Len(output) - c.prefix_start_offset, 0, c.prefix_len),
           c.character)

\* C5: every call of decompress_codeword with offset > 0 raises nothing and
\* leaves the output of the truncating replay: no byte copied from outside
\* 0..len(output)-1, the copy stopped early, the literal appended.
C5_Tolerates ==
    [][cw'.prefix_start_offset > 0 =>
        (~raised' /\ buffer' = TruncatingReplay(buffer, cw'))]_vars

\* ---------------------------------------------------------------------- C7
\* No symbol's code is a prefix of another symbol's code.
PrefixFreeTable ==
    \A a, b \in DOMAIN codec_codes :
        a # b => ~IsPrefix(codec_codes[a], codec_codes[b])

\* The Codec holds the table and nothing else: the reverse lookup has exactly
\* the table's codes, each leading back to its symbol.
TableRegistered ==
    /\ DOMAIN letters = {codec_codes[a] : a \in DOMAIN codec_codes}
    /\ \A a \in DOMAIN codec_codes : letters[codec_codes[a]] = a

NonEmptyCodes == \A a \in DOMAIN codec_codes : codec_codes[a] # <<>>

\* C7 as claimed: with a prefix-free table registered, decode(encode(s)) = s
\* for every list s of its symbols.
C7_RoundTripAnyTable ==
    (pc = "codec_decoded" /\ TableRegistered /\ PrefixFreeTable) =>
        decoded_symbols = symbols

\* C7 as amended: with a prefix-free table of non-empty codes registered,
\* encode(s) is the concatenation of the codes in order and
\* decode(encode(s)) = s for every list s of its symbols.
C7_RoundTrip ==
    (pc = "codec_decoded" /\ TableRegistered /\ PrefixFreeTable /\ NonEmptyCodes) =>
        decoded_symbols = symbols

\* Two symbols with codes of different lengths, both encoded and decoded.
C7_Witness ==
    /\ pc = "codec_decoded"
    /\ TableRegistered
    /\ PrefixFreeTable
    /\ NonEmptyCodes
    /\ symbols = <<66, 65>>
    /\ Len(codec_codes[65]) = 1
    /\ Len(codec_codes[66]) = 2

\* ---------------------------------------------------------------------- C8
\* A token the matcher can emit at the current output.
WellFormed(c, output) ==
    \/ c.prefix_start_offset = 0 /\ c.prefix_len = 0
    \/ 1 <= c.prefix_start_offset /\ c.prefix_start_offset <= Len(output)

\* What replaying a well-formed token does to the output: nothing raised,
\* the old bytes kept, length more bytes each equal to the byte offset places
\* before it in the grown output, then the literal.
ReplayStepOk ==
    WellFormed(cw', buffer) =>
        /\ ~raised'
        /\ Len(buffer') = Len(buffer) + cw'.prefix_len + 1
        /\ SubSeq(buffer', 1, Len(buffer)) = buffer
        /\ \A i \in 0..(cw'.prefix_len - 1) :
            At(buffer', Len(buffer) + i) =
                At(buffer', Len(buffer) - cw'.prefix_start_offset + i)
        /\ At(buffer', Len(buffer) + cw'.prefix_len) = cw'.character

\* The three tokens of the example, each from the output the one before left.
ReplayExample ==
    /\ (buffer = <<>> /\ cw' = Codeword(0, 0, 65)) => buffer' = <<65>>
    /\ (buffer = <<65>> /\ cw' = Codeword(1, 3, 66)) => buffer' = <<65, 65, 65, 65, 66>>
    /\ (buffer = <<65, 65, 65, 65, 66>> /\ cw' = Codeword(4, 4, 67)) =>
        buffer' = <<65, 65, 65, 65, 66, 65, 65, 65, 66, 67>>

FileWritten ==
    pc \in {"d_read", "d_huffman", "d_decode", "d_deserialize", "d_replay", "done", "failed"}

\* The v-th counter of the header, read as a big-endian number.
HeaderCounter(v) ==
    file[4 * v + 1] * 16777216 + file[4 * v + 2] * 65536 + file[4 * v + 3] * 256
        + file[4 * v + 4]

Occurrences(bytes, v) == Cardinality({i \in 1..Len(bytes) : bytes[i] = v})

\* C6: the file compress_file wrote is 1024 header bytes followed by the
\* packed payload; counter v of the header, big-endian, is the number of
\* bytes equal to v in the 5-byte record stream, the counters add up to 5
\* times the number of tokens, and for the empty input the file is 1024 zero
\* bytes and nothing else.
C6_Header ==
    FileWritten =>
        /\ Len(file) = 1024 + Len(encoded_bits) \div 8
        /\ Len(serialized) = 5 * Len(codewords)
        /\ \A v \in 0..255 : HeaderCounter(v) = Occurrences(serialized, v)
        /\ Iterate(LAMBDA acc, v : acc + HeaderCounter(v), Never, 0, 0, 255)
              = 5 * Len(codewords)
        /\ data = <<>> => file = [i \in 1..1024 |-> 0]

\* A header written for an input of several tokens, one of them a
\* back-reference, so that counters other than those of 0 and the literals
\* are positive.
C6_Witness ==
    /\ pc = "d_read"
    /\ Len(codewords) >= 2
    /\ \E i \in 1..Len(codewords) : codewords[i].prefix_start_offset > 0
    /\ HeaderCounter(0) > 4

\* ---------------------------------------------------------------------- C9
\* The run length of offset o at position p: equal bytes buffer[p-o+k] =
\* buffer[p+k], counted until the buffer end, k = o, or k = 258.
RunLength(buf, p, o) ==
    LET limit == Min(Min(o, 258), Len(buf) - p)
    IN  CHOOSE k \in 0..limit :
            /\ \A j \in 0..(k - 1) : At(buf, p - o + j) = At(buf, p + j)
            /\ k = limit \/ At(buf, p - o + k) # At(buf, p + k)

\* The token of the matcher rule at position p with window W.
MatcherRule(buf, W, p) ==
    LET offsets == 1..Min(p, W)
        runs == {RunLength(buf, p, o) : o \in offsets} \cup {0}
        greatest == CHOOSE m \in runs : \A x \in runs : x <= m
        attaining == {o \in offsets : RunLength(buf, p, o) = greatest}
        smallest == CHOOSE o \in attaining : \A x \in attaining : o <= x
    IN  IF greatest = 0 \/ p + greatest >= Len(buf)
        THEN Codeword(0, 0, At(buf, p))
        ELSE Codeword(smallest, greatest, At(buf, p + greatest))

\* C9: codeword_for_position(p) is the token of the matcher rule: the
\* greatest run length over the offsets 1..min(p, W), the smallest offset
\* that attains it, and the literal-only token when that run length is 0 or
\* reaches the end of the buffer.
C9_MatcherRule ==
    q_position >= 0 => q_codeword = MatcherRule(data, window, q_position)

\* A call whose best match is cut at 258 bytes.
C9_Witness ==
    /\ q_position >= 0
    /\ q_codeword.prefix_len = 258
    /\ q_codeword.prefix_start_offset > 258

\* --------------------------------------------------------------------- C10
\* C10: the tokens decompress_file recovers begin with the tokens the
\* matcher emitted, the decoded symbols begin with the serialized records
\* (the pad bits only add symbols after them), and decompress_file ends
\* with an output that begins with b.
C10_PrefixPreserved ==
    /\ pc \in {"d_deserialize", "d_replay", "done", "failed"} =>
        IsPrefix(serialized, decoded_symbols)
    /\ pc \in {"d_replay", "done", "failed"} => IsPrefix(codewords, d_codewords)
    /\ Finished => (pc = "done" /\ IsPrefix(data, out))

====
